---- MODULE Spec2Model ----
(***************************************************************************)
(* Model of the saju-api-server repository:                                *)
(*   src/tools/generate_jieqi_table.py  the offline solar-term generator   *)
(*   src/main.py                        the four-pillars engine            *)
(*                                                                         *)
(* Time.  An instant is an integer number of ticks (the resolution of a    *)
(* datetime) counted in UTC from 00:00 of 1 January of EpochYear.  The     *)
(* model calendar is a scaled-down civil calendar: a year has 12 months of *)
(* DaysPerMonth days, a day 24 hours, an hour MinPerHour minutes and a     *)
(* minute TicksPerMin ticks.  The model's minute is both the unit to which *)
(* the generator truncates an instant (replace(microsecond=0)) and the     *)
(* unit of a birth time.                                                   *)
(*                                                                         *)
(* Ephemeris.  The Skyfield ephemeris is outside the repository; it is     *)
(* replaced by the monotone linear model longitude(t) = rate * t mod 360.  *)
(* Angles are fixed-point: one degree is SolarYear units, so that the      *)
(* longitude at a tick is the integer 360 * (ticks since an equinox).      *)
(***************************************************************************)
EXTENDS Integers, Sequences, FiniteSets, TLC

VARIABLES
    cfg,        \* inputs: [phase: offset of the ephemeris' equinox,
                \*          EPH_MARGIN_DAYS: the JIEQI_EPH_MARGIN_DAYS setting]
    timeline,   \* collect_events_timeline(year) under these inputs, per build year
    scan,       \* one call of find_crossings_for_deg: [pc, deg, start, end, hits]
    gen,        \* the generator process: [pc, JIEQI_APPEND, START_YEAR, END_YEAR, y,
                \*                         result, bad_years, rc]
    store,      \* the JSON file at OUTPUT_PATH: [exists, data: year -> list of entries]
    runs,       \* number of generator runs started so far
    req,        \* calc_saju request: [pc, y, m, d, hh, mm, time_applied]
    resp,       \* calc_saju response
    hour,       \* one call of get_hour_pillar: [pc, day_stem, hh, mm, pillar]
    job         \* the background job: [JIEQI_JOB, _job_lock, handlers, workers]

vars == <<cfg, timeline, scan, gen, store, runs, req, resp, hour, job>>

----------------------------------------------------------------------------
\* Bounds of the model calendar and of the explored inputs.

TicksPerMin == 2
MinPerHour == 2
DaysPerMonth == 3
SolarDrift == 1
MaxPhase == 1
WideMargin == 8
MaxRuns == 2
YearsBack == 1
YearsAhead == 3
ShortLen == 1
MaxRequests == 2

HourTicks == MinPerHour * TicksPerMin
DayTicks == 24 * HourTicks
MonthTicks == DaysPerMonth * DayTicks
YearTicks == 12 * MonthTicks

\* the tropical year is not a whole number of calendar days
SolarYear == YearTicks + SolarDrift

----------------------------------------------------------------------------
\* generate_jieqi_table.py: configuration

EpochYear == 1899
END_YEAR_DEFAULT == 2052
EPH_MARGIN_DAYS == 1
SCAN_STEP_HOURS == 3
BISECT_ITERS == 50

\* timezone(timedelta(hours=9))
KST == 9 * HourTicks

\* TAU, in fixed-point angle units (one degree = SolarYear units)
TAU == 360 * SolarYear
PI == 180 * SolarYear

JIEQI == <<
    [name |-> "chunbun",      deg |-> 0],
    [name |-> "cheongmyeong", deg |-> 15],
    [name |-> "gogu",         deg |-> 30],
    [name |-> "ipha",         deg |-> 45],
    [name |-> "soman",        deg |-> 60],
    [name |-> "mangjong",     deg |-> 75],
    [name |-> "haji",         deg |-> 90],
    [name |-> "soseo",        deg |-> 105],
    [name |-> "daeseo",       deg |-> 120],
    [name |-> "ipchu",        deg |-> 135],
    [name |-> "cheoseo",      deg |-> 150],
    [name |-> "baengno",      deg |-> 165],
    [name |-> "chubun",       deg |-> 180],
    [name |-> "hallo",        deg |-> 195],
    [name |-> "sanggang",     deg |-> 210],
    [name |-> "ipdong",       deg |-> 225],
    [name |-> "soseol",       deg |-> 240],
    [name |-> "daeseol",      deg |-> 255],
    [name |-> "dongji",       deg |-> 270],
    [name |-> "sohan",        deg |-> 285],
    [name |-> "daehan",       deg |-> 300],
    [name |-> "ipchun",       deg |-> 315],
    [name |-> "usu",          deg |-> 330],
    [name |-> "gyeongchip",   deg |-> 345] >>

Degs == { JIEQI[i].deg : i \in 1..Len(JIEQI) }

\* math.radians(deg) % TAU
TARGET_RADS(deg) == (deg * SolarYear) % TAU

\* A day of month of the civil calendar, scaled to the model month.
ModelDay(d) == ((d - 1) * DaysPerMonth) \div 31 + 1

\* datetime(y, m, d, tzinfo=UTC), d a day of the model month
_dt_utc(y, m, d) == (((y - EpochYear) * 12 + (m - 1)) * DaysPerMonth + (d - 1)) * DayTicks

\* dt.astimezone(KST): the wall clock of an instant, in ticks
WallKST(t) == t + KST

\* dt.astimezone(KST).year
KstYear(t) == EpochYear + (WallKST(t) \div YearTicks)

\* dt.replace(microsecond=0)
TruncSecond(t) == t - (t % TicksPerMin)

\* _to_iso / _kst_iso: the text of an instant; an ISO text is modelled by its
\* wall clock reading and its UTC offset
_to_iso(t) == [wall |-> t, off |-> 0]
_kst_iso(t) == [wall |-> WallKST(t), off |-> KST]

\* timedelta / 2: true division, rounded to the resolution, ties to even
HalfDelta(d) ==
    LET q == d \div 2
    IN  IF d % 2 = 0 THEN q ELSE IF q % 2 = 0 THEN q ELSE q + 1

----------------------------------------------------------------------------
\* The ephemeris: a monotone linear longitude, zero at the March equinox of
\* END_YEAR_DEFAULT (19 days into March), shifted by the input phase.

EquinoxRef(ph) ==
    _dt_utc(END_YEAR_DEFAULT, 3, 1) + (19 * MonthTicks) \div 31 + ph * (5 * HourTicks + 1)

Phases == 0..MaxPhase

sun_ecliptic_lon_rad(ph, t) == (360 * ((t - EquinoxRef(ph)) % SolarYear)) % TAU

\* signed smallest difference a-b wrapped to (-pi, +pi]
_wrap_diff(a, b) ==
    LET d == (a - b) % TAU
    IN  IF d > PI THEN d - TAU ELSE d

----------------------------------------------------------------------------
\* clamp_range: the search window clamped inside the ephemeris range.
\* The result is [ok |-> FALSE] where the code raises RuntimeError.

eph_min(margin) == _dt_utc(EpochYear, 7, ModelDay(29)) + margin * DayTicks
eph_max(margin) == _dt_utc(END_YEAR_DEFAULT + 1, 10, ModelDay(9)) - margin * DayTicks

clamp_range(margin, start_dt, end_dt) ==
    LET s == IF start_dt < eph_min(margin) THEN eph_min(margin) ELSE start_dt
        e == IF end_dt > eph_max(margin) THEN eph_max(margin) ELSE end_dt
    IN  IF s >= e THEN [ok |-> FALSE, start |-> s, end |-> e]
        ELSE [ok |-> TRUE, start |-> s, end |-> e]

----------------------------------------------------------------------------
\* find_crossings_for_deg: coarse scan + bisection on a sign change of the
\* wrapped difference.

\* the element of a singleton set; { F(v) : v \in {e} } evaluates e once
Only(S) == CHOOSE x \in S : TRUE

\* (d0 < 0 and d1 > 0) or (d0 > 0 and d1 < 0)
SignChange(d0, d1) == (d0 < 0 /\ d1 > 0) \/ (d0 > 0 /\ d1 < 0)

\* one iteration of the bisection loop on the interval iv = <<t0, t1>>.
\* Where the code breaks (d_mid == 0) the interval becomes <<mid, mid>>, which
\* further iterations leave unchanged.
BisectStep(ph, target_rad, iv) ==
    LET t0 == iv[1]
        t1 == iv[2]
        mid == t0 + HalfDelta(t1 - t0)
        d_mid == _wrap_diff(sun_ecliptic_lon_rad(ph, mid), target_rad)
        d_t0 == _wrap_diff(sun_ecliptic_lon_rad(ph, t0), target_rad)
    IN  IF d_mid = 0 THEN <<mid, mid>>
        ELSE IF SignChange(d_t0, d_mid) THEN <<t0, mid>>
        ELSE <<mid, t1>>

\* the bisection loop `for _ in range(BISECT_ITERS)`: the interval after k
\* iterations (k iterations are k \div 2 iterations followed by the rest)
RECURSIVE Bisect(_, _, _, _)
Bisect(ph, target_rad, iv, k) ==
    IF k = 0 THEN iv
    ELSE IF k = 1 THEN BisectStep(ph, target_rad, iv)
    ELSE Only({ Bisect(ph, target_rad, half, k - k \div 2) :
                  half \in { Bisect(ph, target_rad, iv, k \div 2) } })

\* hits.append(t0 + (t1 - t0) / 2)
BisectHit(ph, target_rad, t0, t1) ==
    LET iv == Bisect(ph, target_rad, <<t0, t1>>, BISECT_ITERS)
    IN  iv[1] + HalfDelta(iv[2] - iv[1])

\* the coarse samples dts: start, start+step, ... (< end), then end
CoarseCount(start_dt, end_dt, step) == (end_dt - start_dt + step - 1) \div step

CoarseTime(start_dt, end_dt, step, i) ==
    IF i < CoarseCount(start_dt, end_dt, step) THEN start_dt + i * step ELSE end_dt

\* diffs: the wrapped difference to the target at every coarse sample
\* (diffs[i + 1] is the code's diffs[i])
CoarseDiffs(ph, step, target_rad, start_dt, end_dt) ==
    <<>> \o [k \in 1..(CoarseCount(start_dt, end_dt, step) + 1) |->
               _wrap_diff(sun_ecliptic_lon_rad(ph, CoarseTime(start_dt, end_dt, step, k - 1)),
                          target_rad)]

\* the loop `for i in range(len(dts) - 1)` over the tabulated diffs
HitsFromDiffs(ph, step, target_rad, start_dt, end_dt, diffs) ==
    LET n == CoarseCount(start_dt, end_dt, step)
        dts(i) == CoarseTime(start_dt, end_dt, step, i)
        Reports(i) == diffs[i + 1] = 0 \/ SignChange(diffs[i + 1], diffs[i + 2])
        HitAt(i) == IF diffs[i + 1] = 0 THEN dts(i)
                    ELSE BisectHit(ph, target_rad, dts(i), dts(i + 1))
    IN  { <<>> \o [k \in 1..Len(idx) |-> HitAt(idx[k])] :
            idx \in { SelectSeq([k \in 1..n |-> k - 1], Reports) } }

find_crossings_for_deg(ph, step, target_rad, start_dt, end_dt) ==
    Only(UNION { HitsFromDiffs(ph, step, target_rad, start_dt, end_dt, diffs) :
                   diffs \in { CoarseDiffs(ph, step, target_rad, start_dt, end_dt) } })

----------------------------------------------------------------------------
\* collect_events_timeline: all crossings of the 24 targets in a two-year
\* window, sorted by time, deduplicated by (KST second, deg).

\* events += ... over the terms lo..hi, in order
RECURSIVE Concat(_, _, _)
Concat(f, lo, hi) ==
    IF lo > hi THEN <<>>
    ELSE IF lo = hi THEN f[lo]
    ELSE Concat(f, lo, (lo + hi) \div 2) \o Concat(f, (lo + hi) \div 2 + 1, hi)

\* list.sort(key=...): a stable sort of the sequence s by Key
RankOf(keys) ==
    <<>> \o [i \in 1..Len(keys) |->
               1 + Cardinality({ j \in 1..Len(keys) :
                                   keys[j] < keys[i] \/ (keys[j] = keys[i] /\ j < i) })]

SortedBy(s, rank) == <<>> \o [k \in 1..Len(s) |-> s[CHOOSE i \in 1..Len(s) : rank[i] = k]]

StableSort(s, Key(_)) ==
    Only({ SortedBy(s, rank) :
             rank \in { RankOf(keys) : keys \in { <<>> \o [i \in 1..Len(s) |-> Key(s[i])] } } })

EventTime(ev) == ev.dt

\* the hits of the j-th term, as (dt_hit, name, deg)
TermHits(ph, step, j, start_dt, end_dt) ==
    Only({ <<>> \o [k \in 1..Len(hits) |->
                      [dt |-> hits[k], name |-> JIEQI[j].name, deg |-> JIEQI[j].deg]] :
             hits \in { find_crossings_for_deg(ph, step, TARGET_RADS(JIEQI[j].deg),
                                               start_dt, end_dt) } })

\* dedupe by (KST timestamp at seconds precision, deg), keeping the first
DedupKey(ev) == <<TruncSecond(WallKST(ev.dt)), ev.deg>>

Dedup(raw) ==
    LET Fresh(i) == \A j \in 1..(i - 1) : DedupKey(raw[j]) # DedupKey(raw[i])
    IN  Only({ <<>> \o [k \in 1..Len(keep) |->
                          [dt |-> TruncSecond(raw[keep[k]].dt),
                           name |-> raw[keep[k]].name,
                           deg |-> raw[keep[k]].deg]] :
                 keep \in { SelectSeq([i \in 1..Len(raw) |-> i], Fresh) } })

collect_events_timeline(ph, margin, step, year) ==
    LET win == clamp_range(margin, _dt_utc(year - 1, 3, 1), _dt_utc(year + 1, 3, 1))
        per == { <<>> \o [j \in 1..Len(JIEQI) |-> TermHits(ph, step, j, win.start, win.end)] }
        unsorted == { Concat(hits, 1, Len(JIEQI)) : hits \in per }
        raw == { StableSort(evs, EventTime) : evs \in unsorted }
    IN  IF ~win.ok THEN [ok |-> FALSE, events |-> <<>>]
        ELSE [ok |-> TRUE, events |-> Only({ Dedup(evs) : evs \in raw })]

\* The years the model builds.  collect_events_timeline depends only on the
\* ephemeris and the year: its value for every build year is tabulated in the
\* variable timeline when the ephemeris is chosen, and read by generate().
BuildYears == (END_YEAR_DEFAULT - YearsBack)..(END_YEAR_DEFAULT + YearsAhead)

step_ticks == SCAN_STEP_HOURS * HourTicks

ScanAll(c) ==
    [y \in BuildYears |-> collect_events_timeline(c.phase, c.EPH_MARGIN_DAYS, step_ticks, y)]

\* the inputs explored: every phase with the default margin, one wide margin
Inputs ==
    { [phase |-> ph, EPH_MARGIN_DAYS |-> EPH_MARGIN_DAYS] : ph \in Phases }
    \cup { [phase |-> 0, EPH_MARGIN_DAYS |-> EPH_MARGIN_DAYS + WideMargin] }

----------------------------------------------------------------------------
\* slice_24_from_ipchun: 24 consecutive events from the ipchun (315 deg) of
\* the target year.  [none |-> TRUE] is the code's None.

ipchun_deg == 315

\* the first ipchun of any year
IsIpchunAnyYear(ev, target_year) == ev.deg = ipchun_deg

\* deg == ipchun_deg and dt_utc.astimezone(KST).year == target_year
IsIpchunOfYear(ev, target_year) ==
    ev.deg = ipchun_deg /\ KstYear(ev.dt) = target_year

Min(S) == CHOOSE x \in S : \A z \in S : x <= z

None == [none |-> TRUE, items |-> <<>>]

\* the degrees are distinct, whatever the length
SliceValidNoLen(slice_events) ==
    Cardinality({ slice_events[k].deg : k \in 1..Len(slice_events) }) = Len(slice_events)

\* len(slice_events) == 24 and len(set(degs)) == 24
SliceValid(slice_events) ==
    /\ Len(slice_events) = 24
    /\ Cardinality({ slice_events[k].deg : k \in 1..Len(slice_events) }) = 24

slice_24_from_ipchun(events, target_year) ==
    LET found == { i \in 1..Len(events) : IsIpchunOfYear(events[i], target_year) }
        idx == Min(found)
        last == IF idx + 23 <= Len(events) THEN idx + 23 ELSE Len(events)
        slice_events == SubSeq(events, idx, last)
    IN  IF found = {} THEN None
        ELSE IF ~SliceValid(slice_events) THEN None
        ELSE [none |-> FALSE,
              items |-> [k \in 1..Len(slice_events) |->
                           [name |-> slice_events[k].name,
                            deg |-> slice_events[k].deg,
                            utc |-> _to_iso(slice_events[k].dt),
                            kst |-> _kst_iso(slice_events[k].dt)]]]

----------------------------------------------------------------------------
\* generate(): one loop iteration per year, then a single dump of the dict.

KstText(item) == item.kst.wall

\* the value generate() puts in result[str(y)]; raises where the window is
\* invalid after clamping
BuildYear(tl, y) ==
    LET sliced == slice_24_from_ipchun(tl.events, y)
    IN  IF ~tl.ok THEN [raised |-> TRUE, bad |-> TRUE, value |-> <<>>]
        ELSE IF sliced.none THEN [raised |-> FALSE, bad |-> TRUE, value |-> <<>>]
        ELSE [raised |-> FALSE,
              bad |-> Len(sliced.items) # 24,
              value |-> StableSort(sliced.items, KstText)]

\* dict assignment d[k] = v
DictSet(d, k, v) == [x \in (DOMAIN d) \cup {k} |-> IF x = k THEN v ELSE d[x]]

EmptyDict == [x \in {} |-> <<>>]

NoFile == [exists |-> FALSE, data |-> EmptyDict]

IdleScan == [pc |-> "idle"]
IdleGen == [pc |-> "idle"]
IdleReq == [pc |-> "idle"]
IdleResp == [pc |-> "none"]
IdleHour == [pc |-> "idle"]

\* main.py JIEQI_JOB at import time (the timestamps are left out), the free
\* lock, and no request and no worker thread yet
JIEQI_JOB == [running |-> FALSE, ok |-> "None", message |-> "None", range |-> <<>>]

\* the POST /admin/generate-jieqi requests, and the thread each may start
JobRequests == 1..MaxRequests

NoThread == [pc |-> "none", start_year |-> 0, end_year |-> 0, ok |-> FALSE, msg |-> ""]

NoRequest == [pc |-> "idle", start_year |-> 0, end_year |-> 0, status |-> 0, message |-> ""]

\* _job_lock is <<>> when free, otherwise <<kind, r>> names its holder
IdleJob == [JIEQI_JOB |-> JIEQI_JOB, _job_lock |-> <<>>,
            handlers |-> [r \in JobRequests |-> NoRequest],
            workers |-> [r \in JobRequests |-> NoThread]]

\* the year ranges the generator is launched with
GenYears == END_YEAR_DEFAULT..(END_YEAR_DEFAULT + YearsAhead)

\* main.py _run_generate_jieqi_script: launch the generator as a subprocess,
\* with the range and JIEQI_APPEND=true in its environment.  The caller
\* (admin_generate_jieqi) has checked start_year <= end_year; subprocess.run
\* returns only when the process has ended.
_run_generate_jieqi_script(start_year, end_year) ==
    /\ gen.pc \in {"idle", "done", "raised", "killed"}
    /\ runs < MaxRuns
    /\ start_year <= end_year
    /\ gen' = [pc |-> "loop", JIEQI_APPEND |-> TRUE,
               START_YEAR |-> start_year, END_YEAR |-> end_year,
               y |-> start_year, result |-> EmptyDict, bad_years |-> <<>>, rc |-> -1]
    /\ runs' = runs + 1
    /\ UNCHANGED <<cfg, timeline, scan, store, req, resp, hour, job>>

\* generate(): one iteration of `for y in range(START_YEAR, END_YEAR + 1)`.
\* An exception of clamp_range is not caught: the process ends with a
\* traceback and the file is not written.
generate_year ==
    /\ gen.pc = "loop"
    /\ gen.y <= gen.END_YEAR
    /\ LET b == BuildYear(timeline[gen.y], gen.y)
       IN  gen' = IF b.raised
                  THEN [gen EXCEPT !.pc = "raised", !.rc = 1]
                  ELSE [gen EXCEPT !.result = DictSet(gen.result, gen.y, b.value),
                                   !.bad_years = IF b.bad THEN Append(gen.bad_years, gen.y)
                                                 ELSE gen.bad_years,
                                   !.y = gen.y + 1]
    /\ UNCHANGED <<cfg, timeline, scan, store, runs, req, resp, hour, job>>

\* generate(): after the loop, json.dump(result) over the file opened with
\* "w", then SystemExit(1) if there were bad years.
generate_dump ==
    /\ gen.pc = "loop"
    /\ gen.y > gen.END_YEAR
    /\ store' = [exists |-> TRUE, data |-> gen.result]
    /\ gen' = [gen EXCEPT !.pc = "done", !.rc = IF gen.bad_years # <<>> THEN 1 ELSE 0]
    /\ UNCHANGED <<cfg, timeline, scan, runs, req, resp, hour, job>>

\* the generator process is killed or crashes in mid-run
generate_killed ==
    /\ gen.pc = "loop"
    /\ gen' = [gen EXCEPT !.pc = "killed", !.rc = -9]
    /\ UNCHANGED <<cfg, timeline, scan, store, runs, req, resp, hour, job>>

InitGen ==
    /\ cfg \in Inputs
    /\ timeline = ScanAll(cfg)
    /\ scan = IdleScan
    /\ gen = IdleGen
    /\ store = NoFile
    /\ runs = 0
    /\ req = IdleReq
    /\ resp = IdleResp
    /\ hour = IdleHour
    /\ job = IdleJob

NextGen ==
    \/ \E s \in GenYears, e \in GenYears : _run_generate_jieqi_script(s, e)
    \/ generate_year
    \/ generate_dump
    \/ generate_killed

SpecGen == InitGen /\ [][NextGen]_vars

----------------------------------------------------------------------------
\* One call of find_crossings_for_deg, as collect_events_timeline makes it:
\* a target of JIEQI over the clamped window of a build year.

Windows ==
    { w \in { clamp_range(EPH_MARGIN_DAYS, _dt_utc(y - 1, 3, 1), _dt_utc(y + 1, 3, 1)) :
                y \in BuildYears } : w.ok }

InitScan ==
    /\ cfg \in { c \in Inputs : c.EPH_MARGIN_DAYS = EPH_MARGIN_DAYS }
    /\ timeline = EmptyDict
    /\ scan \in { [pc |-> "call", deg |-> d, start |-> w.start, end |-> w.end, hits |-> <<>>] :
                    d \in Degs, w \in Windows }
    /\ gen = IdleGen
    /\ store = NoFile
    /\ runs = 0
    /\ req = IdleReq
    /\ resp = IdleResp
    /\ hour = IdleHour
    /\ job = IdleJob

scan_call ==
    /\ scan.pc = "call"
    /\ scan' = [scan EXCEPT !.pc = "done",
                            !.hits = find_crossings_for_deg(cfg.phase, step_ticks,
                                                            TARGET_RADS(scan.deg),
                                                            scan.start, scan.end)]
    /\ UNCHANGED <<cfg, timeline, gen, store, runs, req, resp, hour, job>>

NextScan == scan_call

SpecScan == InitScan /\ [][NextScan]_vars

----------------------------------------------------------------------------
\* main.py: the table lookup.

\* _parse_dt_any: datetime.fromisoformat(text).astimezone(KST), as an instant
_parse_dt_any(value) == value.wall - value.off

\* _pick_item_dt: the first of the keys "kst", "utc" the item has
_pick_item_dt(item) ==
    IF "kst" \in DOMAIN item THEN _parse_dt_any(item.kst) ELSE _parse_dt_any(item.utc)

\* the names find_ipchun_dt accepts (the Korean and the Chinese spelling)
IpchunNames == {"ipchun", "lichun"}

\* find_ipchun_dt: the instant of the first item named ipchun; found is FALSE
\* where the code raises ValueError
find_ipchun_dt(jieqi_list) ==
    LET hit == { i \in 1..Len(jieqi_list) : jieqi_list[i].name \in IpchunNames }
    IN  IF hit = {} THEN [found |-> FALSE, dt |-> 0]
        ELSE [found |-> TRUE, dt |-> _pick_item_dt(jieqi_list[Min(hit)])]

\* load_jieqi_table + get_jieqi_with_fallback: ok is FALSE where the code
\* raises (no file, or `not year_data`: the year is missing or its list empty)
get_jieqi_with_fallback(year) ==
    IF ~store.exists THEN [ok |-> FALSE, year_data |-> <<>>]
    ELSE IF year \notin DOMAIN store.data THEN [ok |-> FALSE, year_data |-> <<>>]
    ELSE IF store.data[year] = <<>> THEN [ok |-> FALSE, year_data |-> <<>>]
    ELSE [ok |-> TRUE, year_data |-> store.data[year]]

----------------------------------------------------------------------------
\* main.py: day and year pillars.

STEMS == <<"Jia", "Yi", "Bing", "Ding", "Wu", "Ji", "Geng", "Xin", "Ren", "Gui">>
BRANCHES == <<"zi", "chou", "yin", "mao", "chen", "si", "wu", "wei", "shen", "you", "xu", "hai">>

\* list.index
IndexOf(seq, x) == (CHOOSE i \in 1..Len(seq) : seq[i] = x) - 1

gregorian_to_jdn(y, m, d) ==
    LET a == (14 - m) \div 12
        y2 == y + 4800 - a
        m2 == m + 12 * a - 3
    IN  d + (153 * m2 + 2) \div 5 + 365 * y2 + y2 \div 4 - y2 \div 100 + y2 \div 400 - 32045

Pillar60(idx) ==
    [stem |-> STEMS[(idx % 10) + 1], branch |-> BRANCHES[(idx % 12) + 1],
     ganji |-> STEMS[(idx % 10) + 1] \o BRANCHES[(idx % 12) + 1], index60 |-> idx]

get_day_pillar(y, m, d) == Pillar60((gregorian_to_jdn(y, m, d) + 47) % 60)

get_year_pillar(year) == Pillar60((year - 1984) % 60)

\* the calendar year, whatever the start of spring
saju_year_calendar(birth_dt, ipchun_dt, year) == year

\* saju_year = birth_dt.year if birth_dt >= ipchun_dt else birth_dt.year - 1
saju_year(birth_dt, ipchun_dt, year) == IF birth_dt >= ipchun_dt THEN year ELSE year - 1

----------------------------------------------------------------------------
\* main.py: month pillar.

MONTH_TERM_TO_BRANCH ==
    << <<"ipchun", "yin">>, <<"gyeongchip", "mao">>, <<"cheongmyeong", "chen">>,
       <<"ipha", "si">>, <<"mangjong", "wu">>, <<"soseo", "wei">>,
       <<"ipchu", "shen">>, <<"baengno", "you">>, <<"hallo", "xu">>,
       <<"ipdong", "hai">>, <<"daeseol", "zi">>, <<"sohan", "chou">> >>

YEAR_STEM_TO_YIN_MONTH_STEM ==
    [s \in {"Jia", "Yi", "Bing", "Ding", "Wu", "Ji", "Geng", "Xin", "Ren", "Gui"} |->
        CASE s \in {"Jia", "Ji"} -> "Bing"
          [] s \in {"Yi", "Geng"} -> "Wu"
          [] s \in {"Bing", "Xin"} -> "Geng"
          [] s \in {"Ding", "Ren"} -> "Ren"
          [] s \in {"Wu", "Gui"} -> "Jia"]

MONTH_BRANCH_SEQ ==
    <<"yin", "mao", "chen", "si", "wu", "wei", "shen", "you", "xu", "hai", "zi", "chou">>

\* _jieqi_term_dt_map: name -> instant; a later item of the same name wins
_jieqi_term_dt_map(jieqi_list) ==
    [n \in { jieqi_list[i].name : i \in 1..Len(jieqi_list) } |->
        LET last == CHOOSE i \in 1..Len(jieqi_list) :
                       /\ jieqi_list[i].name = n
                       /\ \A j \in (i + 1)..Len(jieqi_list) : jieqi_list[j].name # n
        IN  _pick_item_dt(jieqi_list[last])]

\* 00:00 KST of the day after the instant dt
boundary_next_midnight(dt) == ((WallKST(dt) \div DayTicks) + 1) * DayTicks - KST

\* the list `valid`: the candidates, in the order the code appends them, whose
\* boundary is at or before the birth
MonthCandidates(birth_dt, this_year_terms, prev_year_terms) ==
    LET this == SelectSeq(MONTH_TERM_TO_BRANCH, LAMBDA tb : tb[1] \in DOMAIN this_year_terms)
        cands == [k \in 1..Len(this) |->
                    [at |-> boundary_next_midnight(this_year_terms[this[k][1]]),
                     branch |-> this[k][2]]]
        prev == IF "daeseol" \in DOMAIN prev_year_terms
                THEN << [at |-> boundary_next_midnight(prev_year_terms["daeseol"]),
                         branch |-> "zi"] >>
                ELSE <<>>
    IN  SelectSeq(cands \o prev, LAMBDA c : c.at <= birth_dt)

CandidateAt(c) == c.at

_get_month_branch_from_terms(birth_dt, this_year_terms, prev_year_terms) ==
    LET valid == MonthCandidates(birth_dt, this_year_terms, prev_year_terms)
        sorted == StableSort(valid, CandidateAt)
    IN  IF valid = <<>> THEN "chou" ELSE sorted[Len(sorted)].branch

get_month_pillar(birth_dt, saju_year_pillar, jieqi_this_year, jieqi_prev_year) ==
    LET month_branch == _get_month_branch_from_terms(birth_dt,
                                                     _jieqi_term_dt_map(jieqi_this_year),
                                                     _jieqi_term_dt_map(jieqi_prev_year))
        yin_month_stem == YEAR_STEM_TO_YIN_MONTH_STEM[saju_year_pillar.stem]
        month_index == IndexOf(MONTH_BRANCH_SEQ, month_branch)
        stem_index == (IndexOf(STEMS, yin_month_stem) + month_index) % 10
    IN  [stem |-> STEMS[stem_index + 1], branch |-> month_branch,
         ganji |-> STEMS[stem_index + 1] \o month_branch]

----------------------------------------------------------------------------
\* main.py: hour pillar.

HOUR_BRANCH_SEQ ==
    <<"zi", "chou", "yin", "mao", "chen", "si", "wu", "wei", "shen", "you", "xu", "hai">>

DAY_STEM_TO_ZI_HOUR_STEM ==
    [s \in {"Jia", "Yi", "Bing", "Ding", "Wu", "Ji", "Geng", "Xin", "Ren", "Gui"} |->
        CASE s \in {"Jia", "Ji"} -> "Jia"
          [] s \in {"Yi", "Geng"} -> "Bing"
          [] s \in {"Bing", "Xin"} -> "Wu"
          [] s \in {"Ding", "Ren"} -> "Geng"
          [] s \in {"Wu", "Gui"} -> "Ren"]

\* the blocks anchored at 00:00 instead of 23:00
_get_hour_branch_midnight(hh, mm) == HOUR_BRANCH_SEQ[((hh * 60 + mm) \div 120) + 1]

_get_hour_branch(hh, mm) ==
    LET total == hh * 60 + mm
        shifted == (total - 23 * 60) % (24 * 60)
        idx == shifted \div 120
    IN  HOUR_BRANCH_SEQ[idx + 1]

\* the hour stem counted from the day stem itself, not from the stem of its
\* zi hour
get_hour_pillar_day_stem(day_pillar, hh, mm) ==
    LET hour_branch == _get_hour_branch(hh, mm)
        hour_index == IndexOf(HOUR_BRANCH_SEQ, hour_branch)
        stem_index == (IndexOf(STEMS, day_pillar.stem) + hour_index) % 10
    IN  [stem |-> STEMS[stem_index + 1], branch |-> hour_branch,
         ganji |-> STEMS[stem_index + 1] \o hour_branch]

get_hour_pillar(day_pillar, hh, mm) ==
    LET hour_branch == _get_hour_branch(hh, mm)
        zi_hour_stem == DAY_STEM_TO_ZI_HOUR_STEM[day_pillar.stem]
        hour_index == IndexOf(HOUR_BRANCH_SEQ, hour_branch)
        stem_index == (IndexOf(STEMS, zi_hour_stem) + hour_index) % 10
    IN  [stem |-> STEMS[stem_index + 1], branch |-> hour_branch,
         ganji |-> STEMS[stem_index + 1] \o hour_branch]

----------------------------------------------------------------------------
\* main.py calc_saju: GET /api/saju/calc.

\* datetime(y, m, d, hh, mm, tzinfo=KST); mm counts minutes of the model hour
BirthInstant(r) ==
    _dt_utc(r.y, r.m, r.d) + r.hh * HourTicks + r.mm * TicksPerMin - KST

\* the minute of the civil hour a minute of the model hour stands for
CivilMinute(mm) == mm * (60 \div MinPerHour)

Failed(msg) == [pc |-> "done", ok |-> FALSE, error |-> msg]

\* the body of the handler; every exception becomes the 500 response
Respond(r) ==
    LET birth_dt == BirthInstant(r)
        this == get_jieqi_with_fallback(r.y)
        ipchun == find_ipchun_dt(this.year_data)
        year_pillar == get_year_pillar(saju_year(birth_dt, ipchun.dt, r.y))
        day_pillar == get_day_pillar(r.y, r.m, r.d)
        prev == get_jieqi_with_fallback(r.y - 1)
    IN  IF ~this.ok THEN Failed("No jieqi for year")
        ELSE IF ~ipchun.found THEN Failed("ipchun not found")
        ELSE IF ~prev.ok THEN Failed("No jieqi for year")
        ELSE [pc |-> "done", ok |-> TRUE,
              year |-> year_pillar,
              month |-> get_month_pillar(birth_dt, year_pillar, this.year_data, prev.year_data),
              day |-> day_pillar,
              hour |-> IF r.time_applied
                       THEN get_hour_pillar(day_pillar, r.hh, CivilMinute(r.mm))
                       ELSE [stem |-> "", branch |-> "", ganji |-> ""],
              count |-> Len(this.year_data),
              saju_year |-> saju_year(birth_dt, ipchun.dt, r.y)]

calc_saju ==
    /\ req.pc = "pending"
    /\ resp' = Respond(req)
    /\ req' = [req EXCEPT !.pc = "answered"]
    /\ UNCHANGED <<cfg, timeline, scan, gen, store, runs, hour, job>>

\* The table file the engine reads.  It is the file a generator run over
\* TableYears writes, or that file with one year's list removed, emptied or
\* cut short.
TableYears == (END_YEAR_DEFAULT - YearsBack)..(END_YEAR_DEFAULT + 1)

BuiltFile(tl) == [y \in { z \in TableYears : ~BuildYear(tl[z], z).raised } |->
                    BuildYear(tl[y], y).value]

Damaged(data, y, kind) ==
    CASE kind = "absent" -> [z \in DOMAIN data \ {y} |-> data[z]]
      [] kind = "empty" -> [data EXCEPT ![y] = <<>>]
      [] kind = "short" -> [data EXCEPT ![y] = SubSeq(data[y], 1, Min({ShortLen, Len(data[y])}))]

Files(data) ==
    {data} \cup { Damaged(data, y, kind) :
                    y \in DOMAIN data, kind \in {"absent", "empty", "short"} }

BirthYears == END_YEAR_DEFAULT..(END_YEAR_DEFAULT + 1)

Requests ==
    { [pc |-> "pending", y |-> y, m |-> m, d |-> d, hh |-> hh, mm |-> mm, time_applied |-> TRUE] :
        y \in BirthYears, m \in 1..12, d \in 1..DaysPerMonth,
        hh \in 0..23, mm \in 0..(MinPerHour - 1) }
    \cup
    { [pc |-> "pending", y |-> y, m |-> m, d |-> d, hh |-> 0, mm |-> 0, time_applied |-> FALSE] :
        y \in BirthYears, m \in 1..12, d \in 1..DaysPerMonth }

InitSaju ==
    /\ cfg \in Inputs
    /\ timeline = EmptyDict
    /\ scan = IdleScan
    /\ gen = IdleGen
    /\ \E built \in { BuiltFile(tl) : tl \in { ScanAll(cfg) } } :
          \E data \in Files(built) : store = [exists |-> TRUE, data |-> data]
    /\ runs = 0
    /\ req \in Requests
    /\ resp = IdleResp
    /\ hour = IdleHour
    /\ job = IdleJob

NextSaju == calc_saju

SpecSaju == InitSaju /\ [][NextSaju]_vars

----------------------------------------------------------------------------
\* One call of get_hour_pillar, for every day stem and every time of day.

InitHour ==
    /\ cfg \in { c \in Inputs : c.phase = 0 /\ c.EPH_MARGIN_DAYS = EPH_MARGIN_DAYS }
    /\ timeline = EmptyDict
    /\ scan = IdleScan
    /\ gen = IdleGen
    /\ store = NoFile
    /\ runs = 0
    /\ req = IdleReq
    /\ resp = IdleResp
    /\ job = IdleJob
    /\ hour \in { [pc |-> "call", day_stem |-> STEMS[s], hh |-> hh, mm |-> mm,
                   pillar |-> [stem |-> "", branch |-> "", ganji |-> ""]] :
                    s \in 1..Len(STEMS), hh \in 0..23, mm \in 0..59 }

hour_call ==
    /\ hour.pc = "call"
    /\ hour' = [hour EXCEPT !.pc = "done",
                            !.pillar = get_hour_pillar([stem |-> hour.day_stem],
                                                       hour.hh, hour.mm)]
    /\ UNCHANGED <<cfg, timeline, scan, gen, store, runs, req, resp, job>>

NextHour == hour_call

SpecHour == InitHour /\ [][NextHour]_vars

----------------------------------------------------------------------------
\* main.py: the background job.  Each `with _job_lock:` block is two steps,
\* the acquisition of the lock and the body with the release.

\* _is_jieqi_table_usable: the file exists and some year has 24 items
_is_jieqi_table_usable(st) ==
    st.exists /\ \E y \in DOMAIN st.data : Len(st.data[y]) = 24

\* the year ranges of the requests
JobYears == END_YEAR_DEFAULT..(END_YEAR_DEFAULT + 2)

Answer(h, status, message) == [h EXCEPT !.pc = "done", !.status = status, !.message = message]

\* admin_generate_jieqi up to `with _job_lock:`; the ADMIN_TOKEN is set
admin_generate_jieqi(r, token_ok, force, start_year, end_year) ==
    /\ job.handlers[r].pc = "idle"
    /\ LET h == [job.handlers[r] EXCEPT !.start_year = start_year, !.end_year = end_year]
       IN  job' = [job EXCEPT !.handlers[r] =
                     IF ~token_ok THEN Answer(h, 403, "invalid token")
                     ELSE IF start_year > end_year
                          THEN Answer(h, 400, "start_year must be <= end_year")
                     ELSE IF ~force /\ _is_jieqi_table_usable(store)
                          THEN Answer(h, 200, "jieqi table already exists (skip)")
                     ELSE [h EXCEPT !.pc = "wait"]]
    /\ UNCHANGED <<cfg, timeline, scan, gen, store, runs, req, resp, hour>>

\* admin_generate_jieqi: _job_lock acquired
admin_generate_jieqi_lock(r) ==
    /\ job.handlers[r].pc = "wait"
    /\ job._job_lock = <<>>
    /\ job' = [job EXCEPT !._job_lock = <<"handler", r>>, !.handlers[r].pc = "locked"]
    /\ UNCHANGED <<cfg, timeline, scan, gen, store, runs, req, resp, hour>>

\* admin_generate_jieqi: the body of the with block: answer "already running",
\* or start the worker thread; the return releases the lock
admin_generate_jieqi_start(r) ==
    /\ job.handlers[r].pc = "locked"
    /\ job' = IF job.JIEQI_JOB.running
              THEN [job EXCEPT !._job_lock = <<>>,
                               !.handlers[r] = Answer(@, 200, "jieqi generation already running")]
              ELSE [job EXCEPT !._job_lock = <<>>,
                               !.handlers[r] = Answer(@, 200, "jieqi generation started (background)"),
                               !.workers[r] = [pc |-> "started",
                                               start_year |-> job.handlers[r].start_year,
                                               end_year |-> job.handlers[r].end_year,
                                               ok |-> FALSE, msg |-> ""]]
    /\ UNCHANGED <<cfg, timeline, scan, gen, store, runs, req, resp, hour>>

\* _jieqi_job_worker: _job_lock acquired, at its start and at its end
_jieqi_job_worker_lock(r) ==
    /\ job.workers[r].pc \in {"started", "ran"}
    /\ job._job_lock = <<>>
    /\ job' = [job EXCEPT !._job_lock = <<"worker", r>>,
                          !.workers[r].pc = IF @ = "started" THEN "begin" ELSE "end"]
    /\ UNCHANGED <<cfg, timeline, scan, gen, store, runs, req, resp, hour>>

\* _jieqi_job_worker: the first with block
_jieqi_job_worker_begin(r) ==
    /\ job.workers[r].pc = "begin"
    /\ job' = [job EXCEPT !._job_lock = <<>>,
                          !.workers[r].pc = "run",
                          !.JIEQI_JOB = [running |-> TRUE, ok |-> "None", message |-> "None",
                                         range |-> <<job.workers[r].start_year,
                                                     job.workers[r].end_year>>]]
    /\ UNCHANGED <<cfg, timeline, scan, gen, store, runs, req, resp, hour>>

\* a whole run of the generator over start_year..end_year: the file it
\* leaves and its return code
RunGenerator(st, start_year, end_year) ==
    LET years == start_year..end_year
        raised == \E y \in years : BuildYear(timeline[y], y).raised
        bad == \E y \in years : BuildYear(timeline[y], y).bad
    IN  IF raised THEN [store |-> st, rc |-> 1]
        ELSE [store |-> [exists |-> TRUE, data |-> [y \in years |-> BuildYear(timeline[y], y).value]],
              rc |-> IF bad THEN 1 ELSE 0]

\* _jieqi_job_worker: ok, msg = _run_generate_jieqi_script(start_year, end_year);
\* subprocess.run returns when the generator has ended
_jieqi_job_worker_run(r) ==
    /\ job.workers[r].pc = "run"
    /\ LET out == RunGenerator(store, job.workers[r].start_year, job.workers[r].end_year)
       IN  /\ store' = out.store
           /\ job' = [job EXCEPT !.workers[r].pc = "ran",
                                 !.workers[r].ok = (out.rc = 0),
                                 !.workers[r].msg = IF out.rc = 0 THEN "ok"
                                                    ELSE "generator failed"]
    /\ UNCHANGED <<cfg, timeline, scan, gen, runs, req, resp, hour>>

\* _jieqi_job_worker: the second with block; the thread ends
_jieqi_job_worker_end(r) ==
    /\ job.workers[r].pc = "end"
    /\ job' = [job EXCEPT !._job_lock = <<>>,
                          !.workers[r].pc = "finished",
                          !.JIEQI_JOB.running = FALSE,
                          !.JIEQI_JOB.ok = IF job.workers[r].ok THEN "True" ELSE "False",
                          !.JIEQI_JOB.message = job.workers[r].msg]
    /\ UNCHANGED <<cfg, timeline, scan, gen, store, runs, req, resp, hour>>

InitJob ==
    /\ cfg \in { c \in Inputs : c.phase = 0 /\ c.EPH_MARGIN_DAYS = EPH_MARGIN_DAYS }
    /\ timeline = ScanAll(cfg)
    /\ scan = IdleScan
    /\ gen = IdleGen
    /\ store = NoFile
    /\ runs = 0
    /\ req = IdleReq
    /\ resp = IdleResp
    /\ hour = IdleHour
    /\ job = IdleJob

NextJob ==
    \E r \in JobRequests :
        \/ \E token_ok \in BOOLEAN, force \in BOOLEAN, s \in JobYears, e \in JobYears :
              admin_generate_jieqi(r, token_ok, force, s, e)
        \/ admin_generate_jieqi_lock(r)
        \/ admin_generate_jieqi_start(r)
        \/ _jieqi_job_worker_lock(r)
        \/ _jieqi_job_worker_begin(r)
        \/ _jieqi_job_worker_run(r)
        \/ _jieqi_job_worker_end(r)

SpecJob == InitJob /\ [][NextJob]_vars

----------------------------------------------------------------------------
\* Properties of the generator.

Abs(x) == IF x < 0 THEN -x ELSE x

\* the angle the Sun moves in one minute of the model, the unit of a stored
\* instant
LonTolerance == 360 * TicksPerMin

\* C1: round trip of the scanner: at every instant find_crossings_for_deg
\* reports, the longitude equals the target within the tolerance.
C1_RoundTrip ==
    scan.pc = "done" =>
        \A k \in 1..Len(scan.hits) :
            Abs(_wrap_diff(sun_ecliptic_lon_rad(cfg.phase, scan.hits[k]),
                           TARGET_RADS(scan.deg))) <= LonTolerance

\* the tables the builder holds: in memory (result) and in the file
Tables ==
    { gen.result[y] : y \in (IF gen.pc = "idle" THEN {} ELSE DOMAIN gen.result) }
    \cup { store.data[y] : y \in DOMAIN store.data }

\* the instant an ISO text denotes
InstantOf(text) == text.wall - text.off

YearTables(d) == { <<y, d[y]>> : y \in DOMAIN d }

KeyedTables ==
    (IF gen.pc = "idle" THEN {} ELSE YearTables(gen.result)) \cup YearTables(store.data)

C3_EmptyOrComplete ==
    \A t \in Tables :
        \/ t = <<>>
        \/ /\ Len(t) = 24
           /\ { t[k].deg : k \in 1..Len(t) } = { 15 * i : i \in 0..23 }

\* a year whose ipchun is found but whose slice is short is stored empty,
\* next to a year stored complete
C3_Witness ==
    /\ store.exists
    /\ \E y \in DOMAIN store.data :
          /\ store.data[y] = <<>>
          /\ \E i \in 1..Len(timeline[y].events) : IsIpchunOfYear(timeline[y].events[i], y)
    /\ \E y \in DOMAIN store.data : Len(store.data[y]) = 24

\* C4: incremental persistence: once the build of a year has completed, the
\* file holds that year, whatever happens to the run afterwards.
C4_IncrementalPersistence ==
    gen.pc \in {"loop", "killed", "raised"} =>
        \A y \in DOMAIN gen.result :
            store.exists /\ y \in DOMAIN store.data /\ store.data[y] = gen.result[y]

\* C5: append policy: a year present and valid (24 entries) in the file is
\* never changed or removed by a run launched with JIEQI_APPEND=true.
C5_AppendPolicy ==
    [][ \A y \in DOMAIN store.data :
            Len(store.data[y]) = 24 =>
                /\ store'.exists
                /\ y \in DOMAIN store'.data
                /\ store'.data[y] = store.data[y] ]_vars

\* C6: per-year failure isolation: when the run has ended, every year of the
\* range whose own build succeeds is in the file, whichever other years failed.
C6_FailureIsolation ==
    gen.pc \in {"done", "raised"} =>
        \A y \in gen.START_YEAR..gen.END_YEAR :
            LET b == BuildYear(timeline[y], y)
            IN  (~b.raised /\ ~b.bad) =>
                    store.exists /\ y \in DOMAIN store.data /\ store.data[y] = b.value

----------------------------------------------------------------------------
\* Properties of the engine.

\* the list the file holds for a year (<<>> for a missing year)
TableOf(y) == IF store.exists /\ y \in DOMAIN store.data THEN store.data[y] ELSE <<>>

Answered == resp.pc = "done" /\ resp.ok

\* C7: calc_saju returns pillars only if the lookups for the birth year and
\* for the prior year each yield exactly 24 entries.
C7_NoPillarsFromIncomplete ==
    Answered => Len(TableOf(req.y)) = 24 /\ Len(TableOf(req.y - 1)) = 24

MajorTerms == { MONTH_TERM_TO_BRANCH[i][1] : i \in 1..Len(MONTH_TERM_TO_BRANCH) }

BranchOfTerm(name) ==
    MONTH_TERM_TO_BRANCH[CHOOSE i \in 1..Len(MONTH_TERM_TO_BRANCH) :
                            MONTH_TERM_TO_BRANCH[i][1] = name][2]

\* the boundaries of the major terms of a table: 00:00 local time of the day
\* after the term's instant
BoundariesOf(table) ==
    { [at |-> ((table[k].kst.wall \div DayTicks) + 1) * DayTicks - KST,
       branch |-> BranchOfTerm(table[k].name)] :
        k \in { i \in 1..Len(table) : table[i].name \in MajorTerms } }

\* C8: with the builder's tables for Y and Y-1, the month branch is the branch
\* of the latest major-term boundary at or before the birth, over the terms
\* of both years.
C8_MonthBranch ==
    (Answered /\ Len(TableOf(req.y)) = 24 /\ Len(TableOf(req.y - 1)) = 24) =>
        LET past == { b \in BoundariesOf(TableOf(req.y)) \cup BoundariesOf(TableOf(req.y - 1)) :
                        b.at <= BirthInstant(req) }
            latest == { b \in past : \A c \in past : c.at <= b.at }
        IN  past # {} => resp.month.branch \in { b.branch : b \in latest }

\* the instant S of the start-of-spring term of a table
IpchunOf(table) ==
    LET i == Min({ k \in 1..Len(table) : table[k].name \in IpchunNames })
    IN  table[i].kst.wall - KST

\* C9: the year pillar's index60 is ((Y if birth >= S else Y-1) - 1984) mod 60,
\* its stem and branch are index mod 10 and index mod 12, and the years 1924,
\* 1984 and 2044 give index 0.
C9_YearPillar ==
    /\ \A y \in {1924, 1984, 2044} : get_year_pillar(y).index60 = 0
    /\ Answered =>
          LET sy == IF BirthInstant(req) >= IpchunOf(TableOf(req.y)) THEN req.y ELSE req.y - 1
              idx == (sy - 1984) % 60
          IN  /\ resp.year.index60 = idx
              /\ resp.year.stem = STEMS[(idx % 10) + 1]
              /\ resp.year.branch = BRANCHES[(idx % 12) + 1]

\* a birth in the calendar year of the table, before its start of spring
C9_Witness ==
    /\ Answered
    /\ Len(TableOf(req.y)) = 24
    /\ BirthInstant(req) < IpchunOf(TableOf(req.y))
    /\ resp.year.index60 = (req.y - 1 - 1984) % 60

\* C10: the hour branch is the block ((hh*60 + mm - 23*60) mod 1440) div 120
\* counted from zi, the block of hour hh being ((hh + 1) div 2) mod 12, and the
\* hour stem index is (index of DAY_STEM_TO_ZI_HOUR_STEM[day stem] + block) mod 10.
C10_HourPillar ==
    hour.pc = "done" =>
        LET block == ((hour.hh * 60 + hour.mm - 23 * 60) % 1440) \div 120
            first == IndexOf(STEMS, DAY_STEM_TO_ZI_HOUR_STEM[hour.day_stem])
        IN  /\ block = ((hour.hh + 1) \div 2) % 12
            /\ hour.pillar.branch = BRANCHES[block + 1]
            /\ hour.pillar.stem = STEMS[((first + block) % 10) + 1]
            /\ (hour.day_stem = "Jia" /\ block = 0) => hour.pillar.stem = "Jia"
            /\ (hour.day_stem = "Jia" /\ block = 6) => hour.pillar.stem = STEMS[7]

\* 23:30 on a day of stem Geng: the block that wraps midnight
C10_Witness ==
    /\ hour.pc = "done"
    /\ hour.day_stem = "Geng" /\ hour.hh = 23 /\ hour.mm = 30
    /\ hour.pillar.branch = "zi" /\ hour.pillar.stem = "Bing"

\* the 60 (stem, branch) pairs of the sexagenary cycle
SexagenaryPairs == { <<STEMS[(i % 10) + 1], BRANCHES[(i % 12) + 1]>> : i \in 0..59 }

\* the pillars of an answer: year, month, day and, when a time was given, hour
PillarsOf(r) ==
    {r.year, r.month, r.day} \cup (IF req.time_applied THEN {r.hour} ELSE {})

\* C11: every pillar calc_saju returns has a (stem, branch) pair that is one
\* of the 60 pairs of the sexagenary cycle.
C11_SexagenaryPairs ==
    Answered => \A p \in PillarsOf(resp) : <<p.stem, p.branch>> \in SexagenaryPairs

\* an answer with four pillars from complete tables, on a day of odd stem
C11_Witness ==
    /\ Answered
    /\ req.time_applied
    /\ Len(TableOf(req.y)) = 24 /\ Len(TableOf(req.y - 1)) = 24
    /\ resp.day.index60 % 2 = 1
    /\ resp.hour.branch = "wu"

----------------------------------------------------------------------------
\* Properties of the background job.

\* the worker threads that have been started and have not finished
ActiveWorkers == { r \in JobRequests : job.workers[r].pc \notin {"none", "finished"} }

\* C12: single background job: under every interleaving of the requests with
\* the worker threads they start, at most one worker is active at any time (a
\* request handled while a worker is active starts no second worker).
C12_AtMostOneWorker == Cardinality(ActiveWorkers) <= 1

\* the last part of C12 on its own: JIEQI_JOB["running"] is false only when
\* no worker is active
RunningWhileActive == ~job.JIEQI_JOB.running => ActiveWorkers = {}

----------------------------------------------------------------------------
\* Month pillar continuity.

\* the request for the birth one model minute later, in the same calendar
\* year (the request itself at the last minute of the year)
NextMinute(r) ==
    IF r.mm + 1 < MinPerHour THEN [r EXCEPT !.mm = r.mm + 1]
    ELSE IF r.hh < 23 THEN [r EXCEPT !.mm = 0, !.hh = r.hh + 1]
    ELSE IF r.d < DaysPerMonth THEN [r EXCEPT !.mm = 0, !.hh = 0, !.d = r.d + 1]
    ELSE IF r.m < 12 THEN [r EXCEPT !.mm = 0, !.hh = 0, !.d = 1, !.m = r.m + 1]
    ELSE r

\* the next pair of the 60-cycle
NextPair(p, q) ==
    /\ IndexOf(STEMS, q.stem) = (IndexOf(STEMS, p.stem) + 1) % 10
    /\ IndexOf(BRANCHES, q.branch) = (IndexOf(BRANCHES, p.branch) + 1) % 12

\* the month boundaries of the year of a request: the boundaries of the major
\* terms of the tables of the year and of the year before
MonthBoundaries(r) ==
    { b.at : b \in BoundariesOf(TableOf(r.y)) \cup BoundariesOf(TableOf(r.y - 1)) }

ValidTables(r) == Len(TableOf(r.y)) = 24 /\ Len(TableOf(r.y - 1)) = 24

\* C13: month pillar continuity: from one birth minute to the next, in the
\* same calendar year and on valid tables, the month pillar stays the same,
\* or the later minute is a month boundary and the pillar moves to the next
\* pair of the 60-cycle.
C13_MonthContinuity ==
    (Answered /\ req.time_applied /\ ValidTables(req)) =>
        LET later == Respond(NextMinute(req))
        IN  \/ <<later.month.stem, later.month.branch>> = <<resp.month.stem, resp.month.branch>>
            \/ /\ BirthInstant(NextMinute(req)) \in MonthBoundaries(req)
               /\ NextPair(resp.month, later.month)

\* the case C13 names: a birth on the local day of the start of spring and
\* before its instant has the month pillar of the birth at that instant
IpchunDaySamePillar ==
    (Answered /\ req.time_applied /\ ValidTables(req)) =>
        LET S == IpchunOf(TableOf(req.y))
        IN  (/\ BirthInstant(req) < S
             /\ BirthInstant(NextMinute(req)) >= S
             /\ WallKST(BirthInstant(NextMinute(req))) \div DayTicks = WallKST(S) \div DayTicks)
            => Respond(NextMinute(req)).month.ganji = resp.month.ganji

====
